---- MODULE Spec2Model ----
(***************************************************************************)
(* Model of the telemetry ingestion server (rust-server/src/main.rs) and   *)
(* of its storage backends (rust-server/src/conn.rs).                      *)
(*                                                                         *)
(*   SpecSubmit : one run of Server::submit over a chunked request body.   *)
(*   SpecStore  : calls of the Connection trait on one backend.            *)
(*   SpecWriter : calls of the JsonFileWriter methods on one writer.       *)
(*   SpecConc   : concurrent runs of Server::submit sharing sqlite_conn.    *)
(*   SpecOpen   : successive SqliteOpen::open calls on one database file.   *)
(*   SpecDispose: the drop of a JsonFiles backend and the tasks it spawns.  *)
(***************************************************************************)
EXTENDS Integers, Sequences, FiniteSets, TLC

VARIABLES
    frags,        \* the pieces the client's body was assembled from (input)
    body,         \* the full request body, a sequence of bytes (input)
    pos,          \* number of body bytes already delivered as chunks
    bytes,        \* main.rs:28   `bytes`, the accumulation buffer
    de_offset,    \* main.rs:39   read position of json_stream_deserializer
    last_offset,  \* main.rs:42   `last_offset`
    value_end,    \* main.rs:54   `value_end_offset` of the value to insert
    pc,           \* where submit is: "read", "parse", "insert", "done"
    stored,       \* payloads inserted into the store, in insert order
    status,       \* the StatusCode returned (0 while running)
    fault,        \* failure injected by the environment: none/transport/storage
    kind,         \* which Connection implementation the backend is
    db_streams,   \* rows of table streams (Postgres, rusqlite)
    db_events,    \* rows of table events (Postgres, rusqlite)
    jw,           \* conn.rs:177-180  the JsonFileWriters, by table
    files,        \* the files created in json_files/, in creation order
    gone,         \* the tables whose JsonFileWriter has been dropped
    written,      \* per table, the records whose write returned Ok
    io_failed,    \* an I/O operation of the flat-file backend has failed
    panicked,     \* an unwrap() has panicked
    last,         \* the last storage call and its result
    nops,         \* number of storage calls made
    tk,           \* the concurrent submit tasks, by task
    mutex,        \* main.rs:22  holder of sqlite_conn's lock (0: free)
    log,          \* the inserts of all tasks, <<task, payload>>, in order
    disk,         \* the sqlite database file: user_version and schema
    otx,          \* openers.rs:32  the open transaction's view of the file
    opc,          \* where SqliteOpen::open is
    opens,        \* the results of the open calls made so far
    spawned,      \* conn.rs:250  number of finalization tasks spawned
    task_conn,    \* conn.rs:249  the JsonFiles held by the spawned task
    ran           \* number of finalization tasks that have run

svars == <<frags, body, pos, bytes, de_offset, last_offset, value_end, pc,
           stored, status, fault>>

stvars == <<kind, db_streams, db_events, jw, files, gone, written, io_failed,
            panicked, last, nops>>

xvars == <<tk, mutex, log, disk, otx, opc, opens, spawned, task_conn, ran>>

vars == <<svars, stvars, xvars>>

-----------------------------------------------------------------------------
(* Bounds *)

MaxFrags == 2

MaxOps == 4

MaxStreamId == 1

MaxEventIndex == 1

NumTasks == 2

\* Number of SqliteOpen::open calls on the database file.
MaxOpens == 3

\* Number of finalization tasks that are let run.
MaxTasks == 3

-----------------------------------------------------------------------------
(* Bytes.  The alphabet is the part of ASCII the bodies below are built    *)
(* from; every byte class the JSON scanner distinguishes on it is present. *)

QUOTE == "\""

IsWs(c) == c = " "

IsDigit(c) == c \in {"1", "2"}

None == [kind |-> "none"]
Eof == [kind |-> "eof"]
Syntax == [kind |-> "syntax"]
Ok(o) == [kind |-> "ok", off |-> o]

RECURSIVE Flatten(_)
Flatten(ss) == IF ss = <<>> THEN <<>> ELSE Head(ss) \o Flatten(Tail(ss))

-----------------------------------------------------------------------------
(* serde_json as main.rs:39-43 uses it: Deserializer::from_slice(..)       *)
(* .into_iter::<IgnoredAny>().  Offsets count consumed bytes (0-based), so *)
(* the byte peeked at offset o is b[o + 1].                                *)

\* Deserializer::parse_whitespace: offset of the first non-blank byte.
RECURSIVE parse_whitespace(_, _)
parse_whitespace(b, o) ==
    IF o < Len(b) /\ IsWs(b[o + 1]) THEN parse_whitespace(b, o + 1) ELSE o

\* SliceRead::ignore_str, entered after the opening quote: scans to the
\* closing quote; running out of input is EofWhileParsingString.
RECURSIVE ignore_str(_, _)
ignore_str(b, o) ==
    IF o >= Len(b) THEN Eof
    ELSE IF b[o + 1] = QUOTE THEN Ok(o + 1)
    ELSE ignore_str(b, o + 1)

\* Deserializer::ignore_integer on a number starting with a non-zero digit:
\* consumes the run of digits; the end of input ends the number.
RECURSIVE ignore_integer(_, _)
ignore_integer(b, o) ==
    IF o < Len(b) /\ IsDigit(b[o + 1]) THEN ignore_integer(b, o + 1) ELSE Ok(o)

\* Deserializer::ignore_value: the iterative scanner with its `scratch`
\* stack of open brackets and the `enclosing` bracket.  ignore_value is the
\* outer loop, ignore_close the inner loop (closing brackets and commas),
\* ignore_key the object-key step that ends an iteration of the outer loop.
RECURSIVE ignore_value(_, _, _, _)
RECURSIVE ignore_close(_, _, _, _, _)
RECURSIVE ignore_key(_, _, _, _)

ignore_value(b, o, scratch, enclosing) ==
    LET o1 == parse_whitespace(b, o) IN
    IF o1 >= Len(b) THEN Eof                      \* EofWhileParsingValue
    ELSE LET c == b[o1 + 1] IN
         IF c \in {"[", "{"} THEN
             ignore_close(b, o1 + 1, scratch \o enclosing, FALSE, c)
         ELSE IF IsDigit(c) \/ c = QUOTE THEN
             LET r == IF IsDigit(c) THEN ignore_integer(b, o1)
                      ELSE ignore_str(b, o1 + 1) IN
             IF r.kind # "ok" THEN r
             ELSE IF enclosing # <<>> THEN
                 ignore_close(b, r.off, scratch, TRUE, enclosing[1])
             ELSE IF scratch # <<>> THEN
                 ignore_close(b, r.off, SubSeq(scratch, 1, Len(scratch) - 1),
                              TRUE, scratch[Len(scratch)])
             ELSE r
         ELSE Syntax                              \* ExpectedSomeValue

ignore_close(b, o, scratch, accept_comma, frame) ==
    LET o1 == parse_whitespace(b, o) IN
    IF o1 >= Len(b) THEN Eof          \* EofWhileParsingList / ...Object
    ELSE LET c == b[o1 + 1] IN
         IF c = "," /\ accept_comma THEN ignore_key(b, o1 + 1, scratch, frame)
         ELSE IF (c = "]" /\ frame = "[") \/ (c = "}" /\ frame = "{") THEN
             IF scratch = <<>> THEN Ok(o1 + 1)
             ELSE ignore_close(b, o1 + 1, SubSeq(scratch, 1, Len(scratch) - 1),
                               TRUE, scratch[Len(scratch)])
         ELSE IF accept_comma THEN Syntax         \* Expected...CommaOrEnd
         ELSE ignore_key(b, o1, scratch, frame)

ignore_key(b, o, scratch, frame) ==
    IF frame # "{" THEN ignore_value(b, o, scratch, <<frame>>)
    ELSE LET o1 == parse_whitespace(b, o) IN
         IF o1 >= Len(b) THEN Eof                 \* EofWhileParsingObject
         ELSE IF b[o1 + 1] # QUOTE THEN Syntax    \* KeyMustBeAString
         ELSE LET r == ignore_str(b, o1 + 1) IN
              IF r.kind # "ok" THEN r
              ELSE LET o2 == parse_whitespace(b, r.off) IN
                   IF o2 >= Len(b) THEN Eof       \* EofWhileParsingObject
                   ELSE IF b[o2 + 1] # ":" THEN Syntax   \* ExpectedColon
                   ELSE ignore_value(b, o2 + 1, scratch, <<frame>>)

\* StreamDeserializer::peek_end_of_value: a value that does not delimit
\* itself (a number) must be followed by a delimiter or the end of input.
peek_end_of_value(b, o) ==
    IF o >= Len(b) \/ b[o + 1] \in {" ", QUOTE, "[", "]", "{", "}", ",", ":"}
    THEN Ok(o) ELSE Syntax                        \* TrailingCharacters

\* StreamDeserializer::next from read offset o: None at the end of input,
\* otherwise the result of scanning one value; Ok carries byte_offset().
deserializer_next(b, o) ==
    LET o1 == parse_whitespace(b, o) IN
    IF o1 >= Len(b) THEN None
    ELSE LET r == ignore_value(b, o1, <<>>, <<>>) IN
         IF r.kind = "ok" /\ b[o1 + 1] \notin {"[", QUOTE, "{"}
         THEN peek_end_of_value(b, r.off)
         ELSE r

-----------------------------------------------------------------------------
(* Storage backends, conn.rs.                                              *)

Kinds == {"postgres", "sqlite", "jsonfiles"}

Tables == {"streams", "events"}

StreamIds == 1..MaxStreamId

EventIndexes == 0..MaxEventIndex

Headers == {"h"}

\* Payloads handed to insert_event: a well-formed JSON text with a leading
\* blank, a text that is no JSON and a JSON text cut short.
Payloads ==
    { <<" ", "1", "2">>,
      <<"g">>,
      <<QUOTE, "a">> }

\* from_str that accepts every text.
from_str_unchecked(p) == TRUE

\* serde_json::from_str(payload) succeeds: one value, then only blanks.
from_str_ok(p) ==
    LET o1 == parse_whitespace(p, 0) IN
    /\ o1 < Len(p)
    /\ LET r == ignore_value(p, o1, <<>>, <<>>) IN
       /\ r.kind = "ok"
       /\ parse_whitespace(p, r.off) = Len(p)

\* serde_json::from_str on each payload the backends are handed.
PayloadOk == [p \in Payloads |-> from_str_ok(p)]

\* The text of a parsed serde_json::Value written back by to_writer (or
\* kept by jsonb): the blanks between tokens are gone.  (No payload above
\* has a blank inside a string.)
to_writer(p) == SelectSeq(p, LAMBDA c : ~IsWs(c))

\* A record of which only a proper prefix of the bytes reached the encoder.
Torn(rec) == [torn |-> rec]

\* conn.rs:85-88: a JsonFileWriter; w is <<>> for None and <<encoder>> for
\* Some(encoder); an encoder holds its file (index in files) and the
\* records written into the frame it has not finished yet.
Writer(w, table) == [w |-> w, table |-> table]

Encoder(file) == <<[file |-> file, pending |-> <<>>]>>

\* Result of a JsonFileWriter method: the writer and the files afterwards.
Res(wr, fs, res) == [wr |-> wr, files |-> fs, res |-> res]

\* JsonFileWriter::new, conn.rs:97-99.
new(table) == Writer(<<>>, table)

\* JsonFileWriter::new_encoder, conn.rs:117-119.
new_encoder(file, io) ==
    IF io = "encoder" THEN [res |-> "err", w |-> <<>>]
    ELSE [res |-> "ok", w |-> Encoder(file)]

\* finish_stream that hands the file back without finishing the frame.
finish_stream_unfinished(wr, fs, io) ==
    IF wr.w = <<>> THEN Res(wr, fs, "ok") @@ [file |-> 0]
    ELSE Res([wr EXCEPT !.w = <<>>], fs, "ok") @@ [file |-> wr.w[1].file]

\* finish_stream that leaves the encoder in the writer when finish fails.
finish_stream_keeps_on_error(wr, fs, io) ==
    IF wr.w = <<>> THEN Res(wr, fs, "ok") @@ [file |-> 0]
    ELSE IF io = "finish" THEN Res(wr, fs, "err") @@ [file |-> 0]
    ELSE Res([wr EXCEPT !.w = <<>>],
             [fs EXCEPT ![wr.w[1].file].frames = Append(@, wr.w[1].pending)],
             "ok") @@ [file |-> wr.w[1].file]

\* JsonFileWriter::finish_stream, conn.rs:111-116: takes the encoder out of
\* the writer, then finishes its frame; `file` is the file handed back
\* (0 for None).
finish_stream(wr, fs, io) ==
    IF wr.w = <<>> THEN Res(wr, fs, "ok") @@ [file |-> 0]
    ELSE LET enc == wr.w[1]
             taken == [wr EXCEPT !.w = <<>>] IN
         IF io = "finish" THEN Res(taken, fs, "err") @@ [file |-> 0]
         ELSE Res(taken,
                  [fs EXCEPT ![enc.file].frames = Append(@, enc.pending)],
                  "ok") @@ [file |-> enc.file]

\* flush that finishes the frame and does not attach a new encoder.
flush_closes(wr, fs, io) ==
    LET r == finish_stream(wr, fs, io) IN Res(r.wr, r.files, r.res)

\* JsonFileWriter::flush, conn.rs:101-106.
flush(wr, fs, io) ==
    LET r == finish_stream(wr, fs, io) IN
    IF r.res = "err" \/ r.file = 0 THEN Res(r.wr, r.files, r.res)
    ELSE LET e == new_encoder(r.file, io) IN
         Res([r.wr EXCEPT !.w = e.w], r.files, e.res)

\* JsonFileWriter::finish_file, conn.rs:107-110.
finish_file(wr, fs, io) ==
    LET r == finish_stream(wr, fs, io) IN Res(r.wr, r.files, r.res)

\* JsonFileWriter::open, conn.rs:120-133.
open(wr, fs, io) ==
    LET r == finish_file(wr, fs, io) IN
    IF r.res = "err" THEN r
    ELSE IF io = "create" THEN Res(r.wr, r.files, "err")
    ELSE LET fs2 == Append(r.files, [table |-> wr.table, frames |-> <<>>])
             e == new_encoder(Len(fs2), io) IN
         Res([r.wr EXCEPT !.w = e.w], fs2, e.res)

\* write that opens a new file whether or not one is open.
write_always_opens(wr, fs, io) == open(wr, fs, io)

\* JsonFileWriter::write, conn.rs:134-139.
write(wr, fs, io) ==
    IF wr.w = <<>> THEN open(wr, fs, io) ELSE Res(wr, fs, "ok")

\* conn.rs:205-207 and 224-226: self.<writer>.write()?, then the record
\* and its newline are written through the handle.
write_line(wr, fs, rec, io) ==
    LET r == write(wr, fs, io) IN
    IF r.res = "err" THEN r
    ELSE IF io = "write"
         THEN Res([r.wr EXCEPT !.w[1].pending = Append(@, Torn(rec))],
                  r.files, "err")
         ELSE Res([r.wr EXCEPT !.w[1].pending = Append(@, rec)],
                  r.files, "ok")

\* Connection::commit_on_sigint of JsonFiles without its override.
commit_on_sigint_default(k) == FALSE

\* Connection::commit_on_sigint, conn.rs:32-34 and 242-244.
commit_on_sigint(k) == k = "jsonfiles"

\* The records in the finished frames of the files of a table, files in
\* creation order.
RECURSIVE FinalizedIn(_, _)
FinalizedIn(fs, t) ==
    IF fs = <<>> THEN <<>>
    ELSE (IF Head(fs).table = t THEN Flatten(Head(fs).frames) ELSE <<>>)
         \o FinalizedIn(Tail(fs), t)

\* The records written into a frame that is not finished.
Pending(wr) == IF wr.w = <<>> THEN <<>> ELSE wr.w[1].pending

IsOpen(wr) == wr.w # <<>>

\* No concurrent tasks, no open call and no disposal under way.
ExtraIdle ==
    /\ tk = <<>>
    /\ mutex = 0
    /\ log = <<>>
    /\ disk = [user_version |-> 0, schema |-> 0, applied |-> 0]
    /\ otx = <<>>
    /\ opc = "idle"
    /\ opens = <<>>
    /\ spawned = 0
    /\ task_conn = <<>>
    /\ ran = 0

SubmitIdle ==
    /\ frags = <<>>
    /\ body = <<>>
    /\ pos = 0
    /\ bytes = <<>>
    /\ de_offset = 0
    /\ last_offset = 0
    /\ value_end = 0
    /\ pc = "done"
    /\ stored = <<>>
    /\ status = 0
    /\ fault = "none"

\* The backend as its opener returns it (openers.rs:45-51 for JsonFiles).
StoreOpened(k) ==
    /\ kind = k
    /\ db_streams = <<>>
    /\ db_events = <<>>
    /\ jw = [t \in Tables |-> new(t)]
    /\ files = <<>>
    /\ gone = {}
    /\ written = [t \in Tables |-> <<>>]
    /\ io_failed = FALSE
    /\ panicked = FALSE
    /\ last = [op |-> "none", res |-> "ok", pre_open |-> {}]
    /\ nops = 0

InitStore ==
    /\ SubmitIdle
    /\ ExtraIdle
    /\ \E k \in Kinds : StoreOpened(k)

\* Bookkeeping of one storage call: the call, its result and the tables
\* whose writer was open when it was made.
Called(op, res, io_err) ==
    /\ last' = [op |-> op, res |-> res,
                pre_open |-> {t \in Tables : IsOpen(jw[t])}]
    /\ nops' = nops + 1
    /\ io_failed' = (io_failed \/ io_err)

CanCall == nops < MaxOps /\ ~panicked

\* Applies the result r of a method of the writer of table t, whose
\* record rec was written when the method returned Ok.
Apply(t, r, rec) ==
    /\ jw' = [jw EXCEPT ![t] = r.wr]
    /\ files' = r.files
    /\ written' = IF r.res = "ok" THEN [written EXCEPT ![t] = Append(@, rec)]
                  ELSE written

\* new_stream that writes the stream record to the Events writer.
new_stream_to_events(headers) ==
    \/ /\ kind \in {"postgres", "sqlite"}
       /\ \E res \in {"ok", "err"} :
            /\ db_streams' =
                  IF res = "ok"
                  THEN Append(db_streams,
                              [stream_id |-> Len(db_streams) + 1,
                               headers |-> headers])
                  ELSE db_streams
            /\ Called("new_stream", res, FALSE)
       /\ UNCHANGED <<jw, files, written>>
    \/ /\ kind = "jsonfiles"
       /\ \E stream_id \in StreamIds, io \in {"none", "create", "encoder", "write"} :
            LET rec == [stream_id |-> stream_id, headers |-> headers]
                r == write_line(jw["events"], files, rec, io) IN
            /\ Apply("events", r, rec)
            /\ Called("new_stream", r.res, r.res = "err")
       /\ UNCHANGED db_streams

\* Connection::new_stream(headers): conn.rs:43-56 (Postgres), 150-160
\* (rusqlite), 197-209 (JsonFiles).
new_stream(headers) ==
    \/ /\ kind \in {"postgres", "sqlite"}
       /\ \E res \in {"ok", "err"} :
            /\ db_streams' =
                  IF res = "ok"
                  THEN Append(db_streams,
                              [stream_id |-> Len(db_streams) + 1,
                               headers |-> headers])
                  ELSE db_streams
            /\ Called("new_stream", res, FALSE)
       /\ UNCHANGED <<jw, files, written>>
    \/ /\ kind = "jsonfiles"
       /\ \E stream_id \in StreamIds, io \in {"none", "create", "encoder", "write"} :
            LET rec == [stream_id |-> stream_id, headers |-> headers]
                r == write_line(jw["streams"], files, rec, io) IN
            /\ Apply("streams", r, rec)
            /\ Called("new_stream", r.res, r.res = "err")
       /\ UNCHANGED db_streams

\* A call of Connection::new_stream.
NewStream ==
    /\ CanCall
    /\ \E headers \in Headers : new_stream(headers)
    /\ UNCHANGED <<kind, db_events, gone, panicked, svars, xvars>>

\* Connection::insert_event(stream_id, stream_event_index, payload):
\* conn.rs:58-82 (Postgres), 161-174 (rusqlite), 211-228 (JsonFiles).
insert_event(stream_id, index, payload) ==
    \/ /\ kind = "postgres"
       /\ \E res \in {"ok", "err"} :
            /\ res = "ok" => PayloadOk[payload]
            /\ db_events' =
                  IF res = "ok"
                  THEN Append(db_events,
                              [stream_id |-> stream_id,
                               stream_event_index |-> index,
                               payload |-> to_writer(payload)])
                  ELSE db_events
            /\ Called("insert_event", res, FALSE)
       /\ UNCHANGED <<jw, files, written>>
    \/ /\ kind = "sqlite"
       /\ \E res \in {"ok", "err"} :
            /\ res = "ok" => PayloadOk[payload]
            /\ db_events' =
                  IF res = "ok"
                  THEN Append(db_events,
                              [stream_id |-> stream_id,
                               payload |-> to_writer(payload)])
                  ELSE db_events
            /\ Called("insert_event", res, FALSE)
       /\ UNCHANGED <<jw, files, written>>
    \/ /\ kind = "jsonfiles"
       /\ IF ~PayloadOk[payload]
          THEN /\ Called("insert_event", "err", FALSE)
               /\ UNCHANGED <<jw, files, written>>
          ELSE \E io \in {"none", "create", "encoder", "write"} :
                 LET rec == [stream_id |-> stream_id,
                             stream_event_index |-> index,
                             payload |-> to_writer(payload)]
                     r == write_line(jw["events"], files, rec, io) IN
                 /\ Apply("events", r, rec)
                 /\ Called("insert_event", r.res, r.res = "err")
       /\ UNCHANGED db_events

\* A call of Connection::insert_event.
InsertEvent ==
    /\ CanCall
    /\ \E stream_id \in StreamIds, index \in EventIndexes, payload \in Payloads :
         insert_event(stream_id, index, payload)
    /\ UNCHANGED <<kind, db_streams, gone, panicked, svars, xvars>>

\* JsonFiles::flush, conn.rs:230-234; io names the step that fails and the
\* table of the writer it fails on.
JsonFiles_flush(io) ==
    LET s == flush(jw["streams"], files, IF io.t = "streams" THEN io.f ELSE "none") IN
    IF s.res = "err"
    THEN /\ jw' = [jw EXCEPT !["streams"] = s.wr]
         /\ files' = s.files
         /\ Called("flush", "err", TRUE)
    ELSE LET e == flush(jw["events"], s.files, IF io.t = "events" THEN io.f ELSE "none") IN
         /\ jw' = [jw EXCEPT !["streams"] = s.wr, !["events"] = e.wr]
         /\ files' = e.files
         /\ Called("flush", e.res, e.res = "err")

\* commit that finishes the streams file only.
JsonFiles_commit_streams_only(io) ==
    LET s == finish_file(jw["streams"], files, IF io.t = "streams" THEN io.f ELSE "none") IN
    /\ jw' = [jw EXCEPT !["streams"] = s.wr]
    /\ files' = s.files
    /\ Called("commit", s.res, s.res = "err")

\* JsonFiles::commit, conn.rs:236-240.
JsonFiles_commit(io) ==
    LET s == finish_file(jw["streams"], files, IF io.t = "streams" THEN io.f ELSE "none") IN
    IF s.res = "err"
    THEN /\ jw' = [jw EXCEPT !["streams"] = s.wr]
         /\ files' = s.files
         /\ Called("commit", "err", TRUE)
    ELSE LET e == finish_file(jw["events"], s.files, IF io.t = "events" THEN io.f ELSE "none") IN
         /\ jw' = [jw EXCEPT !["streams"] = s.wr, !["events"] = e.wr]
         /\ files' = e.files
         /\ Called("commit", e.res, e.res = "err")

IoFaults(fs) == [t : Tables, f : fs]

\* Connection::flush: the default of conn.rs:23-25, or JsonFiles::flush.
Flush ==
    /\ CanCall
    /\ IF kind = "jsonfiles"
       THEN \E io \in IoFaults({"none", "finish", "encoder"}) : JsonFiles_flush(io)
       ELSE /\ Called("flush", "ok", FALSE)
            /\ UNCHANGED <<jw, files>>
    /\ UNCHANGED <<kind, db_streams, db_events, gone, written, panicked, svars, xvars>>

\* Connection::commit: the default of conn.rs:27-29, or JsonFiles::commit.
Commit ==
    /\ CanCall
    /\ IF kind = "jsonfiles"
       THEN \E io \in IoFaults({"none", "finish"}) : JsonFiles_commit(io)
       ELSE /\ Called("commit", "ok", FALSE)
            /\ UNCHANGED <<jw, files>>
    /\ UNCHANGED <<kind, db_streams, db_events, gone, written, panicked, svars, xvars>>

NextStore ==
    \/ NewStream
    \/ InsertEvent
    \/ Flush
    \/ Commit

SpecStore == InitStore /\ [][NextStore]_vars

-----------------------------------------------------------------------------
(* One JsonFileWriter driven through its methods (conn.rs:90-146): the     *)
(* Streams writer of a JsonFiles backend, called directly.                 *)

WT == "streams"

WriterRecords == [stream_id : StreamIds, headers : Headers]

InitWriter ==
    /\ SubmitIdle
    /\ ExtraIdle
    /\ StoreOpened("jsonfiles")

WriterAlive == CanCall /\ WT \notin gone

WriterFrame == UNCHANGED <<kind, db_streams, db_events, svars, xvars>>

\* JsonFileWriter::write and the write of one record through the handle.
WriterWrite ==
    /\ WriterAlive
    /\ \E rec \in WriterRecords, io \in {"none", "create", "encoder", "write"} :
         LET r == write_line(jw[WT], files, rec, io) IN
         /\ Apply(WT, r, rec)
         /\ Called("write", r.res, r.res = "err")
    /\ UNCHANGED <<gone, panicked>>
    /\ WriterFrame

\* JsonFileWriter::flush.
WriterFlush ==
    /\ WriterAlive
    /\ \E io \in {"none", "finish", "encoder"} :
         LET r == flush(jw[WT], files, io) IN
         /\ jw' = [jw EXCEPT ![WT] = r.wr]
         /\ files' = r.files
         /\ Called("flush", r.res, r.res = "err")
    /\ UNCHANGED <<gone, written, panicked>>
    /\ WriterFrame

\* JsonFileWriter::finish_file.
WriterFinishFile ==
    /\ WriterAlive
    /\ \E io \in {"none", "finish"} :
         LET r == finish_file(jw[WT], files, io) IN
         /\ jw' = [jw EXCEPT ![WT] = r.wr]
         /\ files' = r.files
         /\ Called("finish_file", r.res, r.res = "err")
    /\ UNCHANGED <<gone, written, panicked>>
    /\ WriterFrame

\* A drop that releases the writer's fields without finish_file.
WriterDropNoFinish ==
    /\ WriterAlive
    /\ jw' = [jw EXCEPT ![WT].w = <<>>]
    /\ gone' = gone \cup {WT}
    /\ Called("drop", "ok", FALSE)
    /\ UNCHANGED <<files, written, panicked>>
    /\ WriterFrame

\* impl Drop for JsonFileWriter, conn.rs:142-146: finish_file().unwrap(),
\* then the fields are dropped.
WriterDrop ==
    /\ WriterAlive
    /\ \E io \in {"none", "finish"} :
         LET r == finish_file(jw[WT], files, io) IN
         /\ jw' = [jw EXCEPT ![WT] = r.wr]
         /\ files' = r.files
         /\ panicked' = (r.res = "err")
         /\ Called("drop", r.res, r.res = "err")
    /\ gone' = gone \cup {WT}
    /\ UNCHANGED written
    /\ WriterFrame

\* JsonFileWriter::new for the same table, after the writer was dropped.
WriterNew ==
    /\ CanCall
    /\ WT \in gone
    /\ jw' = [jw EXCEPT ![WT] = new(WT)]
    /\ gone' = gone \ {WT}
    /\ Called("new", "ok", FALSE)
    /\ UNCHANGED <<files, written, panicked>>
    /\ WriterFrame

NextWriter ==
    \/ WriterWrite
    \/ WriterFlush
    \/ WriterFinishFile
    \/ WriterDrop
    \/ WriterNew

SpecWriter == InitWriter /\ [][NextWriter]_vars

-----------------------------------------------------------------------------
(* Request bodies.  A body is the concatenation of up to MaxFrags pieces:  *)
(* complete JSON values, blanks, bytes that are no JSON, and values cut    *)
(* short.                                                                  *)

Values ==
    { <<"{", QUOTE, "a", QUOTE, ":", "1", "}">>,
      <<"{", QUOTE, "b", QUOTE, ":", "2", "}">>,
      <<"[", "1", ",", "2", "]">>,
      <<QUOTE, "a", QUOTE>>,
      <<"1", "2">> }

Blank == <<" ">>

Garbage == { <<"g">>, <<"}">> }

Truncated ==
    { <<"{", QUOTE, "b", QUOTE>>,
      <<"[", "1", ",">>,
      <<QUOTE, "a">> }

Fragments == Values \cup {Blank} \cup Garbage \cup Truncated

FragSeqs == UNION { [1..n -> Fragments] : n \in 0..MaxFrags }

IsNumber(f) == IsDigit(f[1])

\* The pieces are N complete values, adjacent or separated by blanks (two
\* adjacent numbers would read as one number and are left out).
ValidBody(fs) ==
    /\ \A i \in 1..Len(fs) : fs[i] \in Values \cup {Blank}
    /\ \A i \in 1..(Len(fs) - 1) : ~(IsNumber(fs[i]) /\ IsNumber(fs[i + 1]))

ValuesOf(fs) == SelectSeq(fs, LAMBDA f : f \in Values)

\* A payload with the blanks around the value removed.
RECURSIVE TrimLeft(_)
TrimLeft(p) == IF p # <<>> /\ IsWs(Head(p)) THEN TrimLeft(Tail(p)) ELSE p

-----------------------------------------------------------------------------
(* Server::submit, main.rs:26-73.                                          *)

InitSubmit ==
    /\ frags \in FragSeqs
    /\ body = Flatten(frags)
    /\ pos = 0
    /\ bytes = <<>>                                   \* main.rs:28
    /\ de_offset = 0
    /\ last_offset = 0
    /\ value_end = 0
    /\ pc = "read"
    /\ stored = <<>>
    /\ status = 0
    /\ fault = "none"
    /\ StoreOpened("sqlite")                          \* main.rs:10
    /\ ExtraIdle

Return(code) ==
    /\ pc' = "done"
    /\ status' = code

\* main.rs:29-42: body_data_stream.next() yields Ok(chunk), a non-empty
\* run of the bytes not yet delivered; the chunk is appended to `bytes`, a
\* new deserializer is made over all of `bytes` and last_offset is reset.
ReadChunk ==
    /\ pc = "read"
    /\ \E k \in 1..(Len(body) - pos) :
        /\ pos' = pos + k
        /\ bytes' = bytes \o SubSeq(body, pos + 1, pos + k)
    /\ de_offset' = 0
    /\ last_offset' = 0
    /\ pc' = "parse"
    /\ UNCHANGED <<stvars, xvars>>
    /\ UNCHANGED <<frags, body, value_end, stored, status, fault>>

\* main.rs:30-34: body_data_stream.next() yields Err.
ReadError ==
    /\ pc = "read"
    /\ fault' = "transport"
    /\ Return(500)
    /\ UNCHANGED <<stvars, xvars>>
    /\ UNCHANGED <<frags, body, pos, bytes, de_offset, last_offset, value_end,
                   stored>>

\* main.rs:29, 72: body_data_stream.next() yields None, the body has ended.
EndOfStream ==
    /\ pc = "read"
    /\ pos = Len(body)
    /\ Return(200)
    /\ UNCHANGED <<stvars, xvars>>
    /\ UNCHANGED <<frags, body, pos, bytes, de_offset, last_offset, value_end,
                   stored, fault>>

\* main.rs:43-55: one json_stream_deserializer.next().
ParseNext ==
    /\ pc = "parse"
    /\ LET r == deserializer_next(bytes, de_offset) IN
       CASE r.kind \in {"none", "eof"} ->             \* main.rs:43, 45-48
                /\ pc' = "read"
                /\ UNCHANGED <<de_offset, value_end, status>>
         [] r.kind = "syntax" ->                      \* main.rs:49-52
                /\ Return(400)
                /\ UNCHANGED <<de_offset, value_end>>
         [] r.kind = "ok" ->                          \* main.rs:53-55
                /\ de_offset' = r.off
                /\ value_end' = r.off
                /\ pc' = "insert"
                /\ UNCHANGED status
    /\ UNCHANGED <<stvars, xvars>>
    /\ UNCHANGED <<frags, body, pos, bytes, last_offset, stored, fault>>

\* main.rs:55-67: the insert of payload = bytes[last_offset..value_end_offset]
\* succeeds.
InsertOk ==
    /\ pc = "insert"
    /\ stored' = Append(stored, SubSeq(bytes, last_offset + 1, value_end))
    /\ last_offset' = value_end
    /\ pc' = "parse"
    /\ UNCHANGED <<stvars, xvars>>
    /\ UNCHANGED <<frags, body, pos, bytes, de_offset, value_end, status, fault>>

\* InsertError with the error of the insert logged and swallowed.
InsertErrorSwallowed ==
    /\ pc = "insert"
    /\ fault' = "storage"
    /\ pc' = "parse"
    /\ UNCHANGED <<stvars, xvars>>
    /\ UNCHANGED <<frags, body, pos, bytes, de_offset, last_offset, value_end,
                   stored, status>>

\* main.rs:58-66: the insert fails.
InsertError ==
    /\ pc = "insert"
    /\ fault' = "storage"
    /\ Return(500)
    /\ UNCHANGED <<stvars, xvars>>
    /\ UNCHANGED <<frags, body, pos, bytes, de_offset, last_offset, value_end,
                   stored>>

NextSubmit ==
    \/ ReadChunk
    \/ ReadError
    \/ EndOfStream
    \/ ParseNext
    \/ InsertOk
    \/ InsertError

SpecSubmit == InitSubmit /\ [][NextSubmit]_vars

TypeOKSubmit ==
    /\ pc \in {"read", "parse", "insert", "done"}
    /\ status \in {0, 200, 400, 500}
    /\ pos \in 0..Len(body)

-----------------------------------------------------------------------------
(* What one pass of the inner loop (main.rs:42-70) does with a buffer b    *)
(* when every insert succeeds: the payloads inserted and the code returned *)
(* when the pass ends the request.  A body delivered as one chunk is       *)
(* handled by exactly one such pass.                                       *)

RECURSIVE Drain(_, _, _, _)
Drain(b, o, from, acc) ==
    LET r == deserializer_next(b, o) IN
    CASE r.kind = "ok" ->
            Drain(b, r.off, r.off, Append(acc, SubSeq(b, from + 1, r.off)))
      [] r.kind = "syntax" -> [stored |-> acc, code |-> 400, end |-> "syntax"]
      [] OTHER -> [stored |-> acc, code |-> 200, end |-> r.kind]

OneChunk(b) == Drain(b, 0, 0, <<>>)

Trimmed(ps) == [i \in 1..Len(ps) |-> TrimLeft(ps[i])]

IsPrefix(s, t) == Len(s) <= Len(t) /\ SubSeq(t, 1, Len(s)) = s

-----------------------------------------------------------------------------
(* Claims about Server::submit (SpecSubmit).                               *)

\* C1: a body made of N valid JSON values, under every chunking, ends with
\* status 200 and exactly N inserts, one per value, in body order.
C1_OneInsertPerValue ==
    (pc = "done" /\ fault = "none" /\ ValidBody(frags))
        => (status = 200 /\ Trimmed(stored) = ValuesOf(frags))

\* C2: every chunking of a body yields the stored payloads and the status
\* that the delivery of the same body as a single chunk yields.
C2_ChunkingIndependent ==
    (pc = "done" /\ fault = "none")
        => (stored = OneChunk(body).stored /\ status = OneChunk(body).code)

\* C3: the body ending inside an unfinished value gives 400; 200 is given
\* at the end of the stream only when no unfinished value is pending; an
\* unfinished value is not an error while chunks can still arrive.
C3_TruncatedIsClientError ==
    /\ (pc = "done" /\ fault = "none" /\ OneChunk(body).end = "eof")
            => status = 400
    /\ (status = 200) => OneChunk(body).end = "none"
    /\ (status = 400) => OneChunk(bytes).end = "syntax"

\* C4: on a syntax error submit returns 400 at once, nothing is inserted
\* and no chunk is read afterwards, and the values before the malformed
\* bytes are each stored exactly once and stay stored.
C4_MalformedStopsRequest ==
    [][ /\ (status' = 400) =>
              (pc' = "done" /\ Trimmed(stored') = Trimmed(OneChunk(bytes').stored))
        /\ (status = 400) => (stored' = stored /\ pos' = pos)
      ]_vars

\* C5: a failed chunk read or a failed insert makes submit return 500 and
\* stop: nothing is read or inserted after the failure, and the records
\* inserted before it stay stored.
C5_FailureStopsRequest ==
    [][ /\ (fault' # "none") => (status' = 500 /\ pc' = "done")
        /\ (fault # "none") => (stored' = stored /\ pos' = pos)
        /\ IsPrefix(stored, stored')
      ]_vars

\* C5 witness: an insert failed after an earlier record had been inserted,
\* with body bytes still undelivered.
C5_Witness ==
    /\ fault = "storage"
    /\ status = 500
    /\ stored # <<>>
    /\ pos < Len(body)

-----------------------------------------------------------------------------
(* Claims about the flat-file backend (SpecStore, SpecWriter).             *)

Stepped(ops) == nops' # nops /\ last'.op \in ops

\* The file no longer held by jw[t], or 0.
FileOf(wr) == IF IsOpen(wr) THEN wr.w[1].file ELSE 0

\* C6: flat-file backend, calls without an I/O failure: at every moment the
\* finished frames of a writer's files (in creation order) followed by its
\* unfinished frame are exactly the records written to it, each once and in
\* write order; after a successful commit nothing is unfinished, so the
\* finished frames alone are the records written.
C6_FramesHoldEveryRecordOnce ==
    (kind = "jsonfiles" /\ ~io_failed) =>
        \A t \in Tables :
            /\ FinalizedIn(files, t) \o Pending(jw[t]) = written[t]
            /\ (last.op = "commit" /\ last.res = "ok")
                   => FinalizedIn(files, t) = written[t]

\* C6 witness: events written, a flush, more events, a successful commit:
\* a file with two non-empty finished frames and both writers closed.
C6_Witness ==
    /\ kind = "jsonfiles"
    /\ ~io_failed
    /\ last.op = "commit"
    /\ last.res = "ok"
    /\ \E i \in 1..Len(files) :
          /\ Len(files[i].frames) = 2
          /\ files[i].frames[1] # <<>>
          /\ files[i].frames[2] # <<>>

\* C7: a flush that returns Ok on an open writer appends the unfinished
\* frame to the writer's file as a finished frame, leaves the writer open on
\* the same file with an empty new frame and creates no file; on a closed
\* writer it leaves the writer closed and the files as they were.
C7_FlushFinalizesFrameKeepsFile ==
    [][ (Stepped({"flush"}) /\ last'.res = "ok") =>
          IF IsOpen(jw[WT])
          THEN /\ IsOpen(jw'[WT])
               /\ FileOf(jw'[WT]) = FileOf(jw[WT])
               /\ Pending(jw'[WT]) = <<>>
               /\ Len(files') = Len(files)
               /\ files' = [files EXCEPT ![FileOf(jw[WT])].frames =
                                             Append(@, Pending(jw[WT]))]
               /\ FinalizedIn(files', WT) =
                      FinalizedIn(files, WT) \o Pending(jw[WT])
          ELSE /\ ~IsOpen(jw'[WT])
               /\ files' = files
      ]_vars

\* C7 witness: a flush returned Ok on a writer that was open with records
\* in its frame: the writer is open with an empty frame on a file whose
\* last finished frame is not empty.
C7_Witness ==
    /\ last.op = "flush"
    /\ last.res = "ok"
    /\ WT \in last.pre_open
    /\ IsOpen(jw[WT])
    /\ Pending(jw[WT]) = <<>>
    /\ LET fr == files[FileOf(jw[WT])].frames IN
       fr # <<>> /\ fr[Len(fr)] # <<>>

\* C8: after JsonFiles::commit returns Ok both writers are closed, and
\* (no I/O failure having occurred) the finished frames of the files hold
\* every record written; the first write after it creates a new file and a
\* file that no open writer holds is never changed again.
C8_CommitClosesFiles ==
    [][ kind = "jsonfiles" =>
          /\ (Stepped({"commit"}) /\ last'.res = "ok") =>
                /\ \A t \in Tables : ~IsOpen(jw'[t])
                /\ ~io_failed' =>
                      \A t \in Tables : FinalizedIn(files', t) = written'[t]
          /\ (last.op = "commit" /\ last.res = "ok"
                /\ Stepped({"new_stream", "insert_event"}) /\ last'.res = "ok") =>
                /\ Len(files') = Len(files) + 1
                /\ \E t \in Tables :
                      /\ FileOf(jw'[t]) = Len(files')
                      /\ Pending(jw'[t]) # <<>>
          /\ \A i \in 1..Len(files) :
                (\A t \in Tables : FileOf(jw[t]) # i) => files'[i] = files[i]
      ]_vars

\* C8 witness: a record was written, committed, and a later write opened a
\* second file of the same table while the committed file keeps its record.
C8_Witness ==
    /\ kind = "jsonfiles"
    /\ ~io_failed
    /\ \E t \in Tables :
          /\ IsOpen(jw[t])
          /\ Pending(jw[t]) # <<>>
          /\ \E i \in 1..(FileOf(jw[t]) - 1) :
                /\ files[i].table = t
                /\ Flatten(files[i].frames) # <<>>

\* C9: commit_on_sigint() is true for JsonFiles and false for Postgres and
\* rusqlite; where it is false, flush and commit return Ok and change no
\* storage state, and no writer holds unfinished records: a backend with
\* unfinished records reports true.
C9_CommitOnSigintIffBuffering ==
    [][ /\ commit_on_sigint("jsonfiles")
        /\ ~commit_on_sigint("postgres")
        /\ ~commit_on_sigint("sqlite")
        /\ (\E t \in Tables : Pending(jw'[t]) # <<>>) => commit_on_sigint(kind')
        /\ (~commit_on_sigint(kind) /\ Stepped({"flush", "commit"})) =>
              /\ last'.res = "ok"
              /\ UNCHANGED <<db_streams, db_events, jw, files>>
      ]_vars

\* C9 witness: the flat-file backend holds a written record in a frame it
\* has not finished.
C9_Witness ==
    /\ kind = "jsonfiles"
    /\ commit_on_sigint(kind)
    /\ \E t \in Tables : Pending(jw[t]) # <<>>

\* C10: a drop of a JsonFileWriter that does not fail appends the unfinished
\* frame of an open writer to its file as a finished frame and releases the
\* file, so that every record written lies in a finished frame; the drop of
\* a closed writer changes no file.
C10_DropFinalizes ==
    [][ (Stepped({"drop"}) /\ last'.res = "ok") =>
          /\ WT \in gone'
          /\ ~IsOpen(jw'[WT])
          /\ Len(files') = Len(files)
          /\ IF IsOpen(jw[WT])
             THEN /\ files' = [files EXCEPT ![FileOf(jw[WT])].frames =
                                                Append(@, Pending(jw[WT]))]
                  /\ ~io_failed' => FinalizedIn(files', WT) = written'[WT]
             ELSE files' = files
      ]_vars

\* C10 witness: a writer was dropped while open after a write, a flush and
\* another write: its file ends with two non-empty finished frames.
C10_Witness ==
    /\ last.op = "drop"
    /\ last.res = "ok"
    /\ WT \in last.pre_open
    /\ WT \in gone
    /\ \E i \in 1..Len(files) :
          /\ Len(files[i].frames) = 2
          /\ files[i].frames[1] # <<>>
          /\ files[i].frames[2] # <<>>

-----------------------------------------------------------------------------
(* Claims about the splitting in Server::submit (SpecSubmit).              *)

\* The offset in b that follows the last complete value of b.
RECURSIVE ConsumedFrom(_, _)
ConsumedFrom(b, o) ==
    LET r == deserializer_next(b, o) IN
    IF r.kind = "ok" THEN ConsumedFrom(b, r.off) ELSE o

Consumed(b) == ConsumedFrom(b, 0)

\* p is the text of exactly one JSON value, from its first to its last byte.
ExactlyOneValue(p) ==
    /\ p # <<>>
    /\ ~IsWs(p[1])
    /\ LET r == deserializer_next(p, 0) IN r.kind = "ok" /\ r.off = Len(p)

\* C12: every payload handed to the store is exactly the bytes of one
\* value: no blank before it and no byte of a neighbouring value.
C12_PayloadIsExactlyTheValue ==
    \A i \in 1..Len(stored) : ExactlyOneValue(stored[i])

\* C13: after a new chunk the splitting starts at the body offset that
\* follows the last emitted value, and once a chunk is processed the buffer
\* holds exactly the body bytes delivered after the last emitted value.
C13_ResumesAfterLastValue ==
    [][ /\ (pos' > pos) =>
              (pos' - Len(bytes')) + de_offset' = Consumed(SubSeq(body, 1, pos))
        /\ (pc' = "read") =>
              bytes' = SubSeq(body, Consumed(SubSeq(body, 1, pos')) + 1, pos')
      ]_vars

-----------------------------------------------------------------------------
(* Concurrent submit tasks (main.rs:12-15, 21-23, 26-73): every request is *)
(* a task running Server::submit; the tasks share sqlite_conn behind a     *)
(* tokio Mutex.  A task suspends at body_data_stream.next().await and at   *)
(* lock().await; the guard lives until the end of the `if let` statement   *)
(* of main.rs:58-66.                                                       *)

Tasks == 1..NumTasks

ConcBodies ==
    { <<QUOTE, "a", QUOTE, "1">>,
      <<"[", "]">> }

TaskStart(b) ==
    [pc |-> "read", body |-> b, pos |-> 0, bytes |-> <<>>, de_offset |-> 0,
     last_offset |-> 0, value_end |-> 0, status |-> 0]

InitConc ==
    /\ SubmitIdle
    /\ StoreOpened("sqlite")
    /\ tk \in [Tasks -> {TaskStart(b) : b \in ConcBodies}]
    /\ mutex = 0
    /\ log = <<>>
    /\ disk = [user_version |-> 0, schema |-> 0, applied |-> 0]
    /\ otx = <<>>
    /\ opc = "idle"
    /\ opens = <<>>
    /\ spawned = 0
    /\ task_conn = <<>>
    /\ ran = 0

ConcFrame ==
    UNCHANGED <<svars, stvars, disk, otx, opc, opens, spawned, task_conn, ran>>

\* main.rs:29-42 in task t: the next chunk arrives.
TaskReadChunk(t) ==
    /\ tk[t].pc = "read"
    /\ \E k \in 1..(Len(tk[t].body) - tk[t].pos) :
         tk' = [tk EXCEPT ![t].pos = @ + k,
                          ![t].bytes = @ \o SubSeq(tk[t].body, tk[t].pos + 1,
                                                   tk[t].pos + k),
                          ![t].de_offset = 0,
                          ![t].last_offset = 0,
                          ![t].pc = "parse"]
    /\ UNCHANGED <<mutex, log>>
    /\ ConcFrame

\* main.rs:30-34 in task t: the body stream fails.
TaskReadError(t) ==
    /\ tk[t].pc = "read"
    /\ tk' = [tk EXCEPT ![t].pc = "done", ![t].status = 500]
    /\ UNCHANGED <<mutex, log>>
    /\ ConcFrame

\* main.rs:29, 72 in task t: the body has ended.
TaskEndOfStream(t) ==
    /\ tk[t].pc = "read"
    /\ tk[t].pos = Len(tk[t].body)
    /\ tk' = [tk EXCEPT ![t].pc = "done", ![t].status = 200]
    /\ UNCHANGED <<mutex, log>>
    /\ ConcFrame

\* main.rs:43-55 in task t.
TaskParseNext(t) ==
    /\ tk[t].pc = "parse"
    /\ LET r == deserializer_next(tk[t].bytes, tk[t].de_offset) IN
       tk' = CASE r.kind \in {"none", "eof"} -> [tk EXCEPT ![t].pc = "read"]
               [] r.kind = "syntax" ->
                     [tk EXCEPT ![t].pc = "done", ![t].status = 400]
               [] r.kind = "ok" ->
                     [tk EXCEPT ![t].de_offset = r.off,
                                ![t].value_end = r.off,
                                ![t].pc = "lock"]
    /\ UNCHANGED <<mutex, log>>
    /\ ConcFrame

\* A lock() that hands the guard out while another task holds it.
TaskLockNoWait(t) ==
    /\ tk[t].pc = "lock"
    /\ mutex' = t
    /\ tk' = [tk EXCEPT ![t].pc = "execute"]
    /\ UNCHANGED log
    /\ ConcFrame

\* main.rs:58-61 in task t: self.sqlite_conn.lock().await returns the
\* guard once no other task holds it.
TaskLock(t) ==
    /\ tk[t].pc = "lock"
    /\ mutex = 0
    /\ mutex' = t
    /\ tk' = [tk EXCEPT ![t].pc = "execute"]
    /\ UNCHANGED log
    /\ ConcFrame

\* main.rs:62-67 in task t: execute() returns, the guard is dropped; the
\* log entry keeps the task, the payload, the bytes the task had received
\* and the end offset of the value.
TaskExecute(t) ==
    /\ tk[t].pc = "execute"
    /\ mutex' = 0
    /\ \/ /\ log' = Append(log,
                      [task |-> t,
                       payload |-> SubSeq(tk[t].bytes, tk[t].last_offset + 1,
                                          tk[t].value_end),
                       pos |-> tk[t].pos,
                       end |-> tk[t].value_end])
          /\ tk' = [tk EXCEPT ![t].last_offset = tk[t].value_end,
                              ![t].pc = "parse"]
       \/ /\ tk' = [tk EXCEPT ![t].pc = "done", ![t].status = 500]
          /\ UNCHANGED log
    /\ ConcFrame

NextConc ==
    \E t \in Tasks :
        \/ TaskReadChunk(t)
        \/ TaskReadError(t)
        \/ TaskEndOfStream(t)
        \/ TaskParseNext(t)
        \/ TaskLock(t)
        \/ TaskExecute(t)

SpecConc == InitConc /\ [][NextConc]_vars

\* The tasks inside a storage call.
InStorageCall == {t \in Tasks : tk[t].pc = "execute"}

\* The inserts of task t, in log order.
InsertsOf(t) == SelectSeq(log, LAMBDA e : e.task = t)

\* C11: at most one task is inside a storage call; the guard is held by a
\* task exactly while it is inside its storage call (never while it waits
\* for a chunk); the inserts of one request appear in the log in the order
\* the request made them (by chunk, then by offset).
C11_OneTaskInStorageCall ==
    /\ Cardinality(InStorageCall) <= 1
    /\ \A t \in Tasks : (mutex = t) <=> (tk[t].pc = "execute")
    /\ \A t \in Tasks :
          LET mine == InsertsOf(t) IN
          \A i \in 1..(Len(mine) - 1) :
              \/ mine[i].pos < mine[i + 1].pos
              \/ mine[i].pos = mine[i + 1].pos /\ mine[i].end < mine[i + 1].end

\* C11 witness: the inserts of two requests interleave (one of task 1, one
\* of task 2, then one of task 1 again) while a task waits for the guard
\* that another one holds.
C11_Witness ==
    /\ \E i \in 1..(Len(log) - 2) :
          /\ log[i].task = 1
          /\ log[i + 1].task = 2
          /\ log[i + 2].task = 1
    /\ \E t, u \in Tasks : tk[t].pc = "execute" /\ tk[u].pc = "lock"

-----------------------------------------------------------------------------
(* Further claims about the flat-file backend.                             *)

\* C14: only a write on a closed writer creates a file, and one file at a
\* time; such a write, when it returns Ok, creates exactly one file and
\* opens the writer on it; when no I/O operation has failed, a call creates
\* a file exactly when it takes the writer from closed to open.
C14_FileCreatedOnlyByWriteOnClosed ==
    [][ (nops' # nops) =>
          /\ (Len(files') # Len(files)) =>
                /\ last'.op = "write"
                /\ ~IsOpen(jw[WT])
                /\ Len(files') = Len(files) + 1
                /\ files'[Len(files')] = [table |-> WT, frames |-> <<>>]
          /\ (last'.op = "write" /\ last'.res = "ok" /\ ~IsOpen(jw[WT])) =>
                /\ Len(files') = Len(files) + 1
                /\ FileOf(jw'[WT]) = Len(files')
          /\ ~io_failed' =>
                ((~IsOpen(jw[WT]) /\ IsOpen(jw'[WT]))
                     <=> (Len(files') = Len(files) + 1))
      ]_vars

\* C14 witness: write, finish_file and write again, without a failure: the
\* writer is open on the second file it created.
C14_Witness ==
    /\ ~io_failed
    /\ last.op = "write"
    /\ last.res = "ok"
    /\ WT \notin last.pre_open
    /\ Len(files) = 2
    /\ FileOf(jw[WT]) = 2

\* The event record stored last: the last row of table events, or the last
\* record in the unfinished frame of the Events writer.
LastEventStored ==
    LET evs == IF kind = "jsonfiles" THEN Pending(jw["events"]) ELSE db_events
    IN  IF evs = <<>> THEN <<>> ELSE evs[Len(evs)]

\* C15: on every backend an insert_event(stream_id, index, payload) that
\* returns Ok stores one event record with that stream_id, that index and
\* that payload.
C15_EventCarriesItsFields ==
    [][ \A sid \in StreamIds, idx \in EventIndexes, p \in Payloads :
          (CanCall /\ insert_event(sid, idx, p) /\ last'.res = "ok") =>
              LastEventStored' = [stream_id |-> sid,
                                  stream_event_index |-> idx,
                                  payload |-> to_writer(p)]
      ]_vars

\* The payloads that are not well-formed JSON.
InvalidPayloads == { <<"g">>, <<QUOTE, "a">> }

\* C17: JsonFiles::insert_event with a payload that is not well-formed JSON
\* returns an error and leaves both writers, the files and the records
\* written as they were.
C17_InvalidPayloadTouchesNoWriter ==
    [][ (kind = "jsonfiles" /\ Stepped({"insert_event"})) =>
          \A sid \in StreamIds, idx \in EventIndexes, p \in InvalidPayloads :
              (CanCall /\ insert_event(sid, idx, p)) =>
                  /\ last'.res = "err"
                  /\ UNCHANGED <<jw, files, written>>
      ]_vars

\* C17 witness: an insert_event failed without any I/O failure, on a
\* backend whose Events writer is open with a record in its frame.
C17_Witness ==
    /\ kind = "jsonfiles"
    /\ ~io_failed
    /\ last.op = "insert_event"
    /\ last.res = "err"
    /\ "events" \in last.pre_open
    /\ Pending(jw["events"]) # <<>>

\* The table a write call of the flat-file backend writes to.
TableOf(op) == IF op = "new_stream" THEN "streams" ELSE "events"

FilesOf(fs, t) == SelectSeq(fs, LAMBDA f : f.table = t)

\* C19: when finishing the frame of an open writer fails inside
\* JsonFiles::flush or JsonFiles::commit, the call returns Err and that
\* writer ends closed; a failure on the Streams writer leaves the Events
\* writer and all files as they were; the next successful write to the
\* writer that failed creates a new file.
C19_FailedFinishClosesWriter ==
    [][ kind = "jsonfiles" =>
          /\ \A io \in IoFaults({"finish"}) :
                ( /\ Stepped({"flush", "commit"})
                  /\ CanCall
                  /\ IsOpen(jw[io.t])
                  /\ JsonFiles_flush(io) \/ JsonFiles_commit(io) ) =>
                    /\ last'.res = "err"
                    /\ ~IsOpen(jw'[io.t])
                    /\ io.t = "streams" =>
                          /\ jw'["events"] = jw["events"]
                          /\ files' = files
          /\ ( /\ last.op \in {"flush", "commit"}
               /\ last.res = "err"
               /\ Stepped({"new_stream", "insert_event"})
               /\ last'.res = "ok"
               /\ ~IsOpen(jw[TableOf(last'.op)]) ) =>
                    /\ Len(files') = Len(files) + 1
                    /\ FileOf(jw'[TableOf(last'.op)]) = Len(files')
      ]_vars

\* C19 witness: a flush or commit failed on the open Streams writer, which
\* is now closed, while the Events writer is still open with its records.
C19_Witness ==
    /\ kind = "jsonfiles"
    /\ last.op \in {"flush", "commit"}
    /\ last.res = "err"
    /\ last.pre_open = Tables
    /\ ~IsOpen(jw["streams"])
    /\ IsOpen(jw["events"])
    /\ Pending(jw["events"]) # <<>>

\* The record, whole or torn.
Untorn(r) == IF "torn" \in DOMAIN r THEN r.torn ELSE r

\* All records that reached the writer of table t.
RecordsOf(t) == FinalizedIn(files, t) \o Pending(jw[t])

\* The field only the records of table t have.
RecordField(t) == IF t = "streams" THEN "headers" ELSE "payload"

\* Every record in the frames of the files fs and in the unfinished frames of
\* the writers ws is a record of the table its file or writer belongs to.
HoldsOwnRecords(fs, ws) ==
    /\ \A i \in 1..Len(fs) :
         \A j \in 1..Len(fs[i].frames) :
           \A k \in 1..Len(fs[i].frames[j]) :
             RecordField(fs[i].table) \in DOMAIN Untorn(fs[i].frames[j][k])
    /\ \A t \in Tables :
         \A k \in 1..Len(Pending(ws[t])) :
           RecordField(t) \in DOMAIN Untorn(Pending(ws[t])[k])

\* C20: in the flat-file backend new_stream changes only the Streams writer
\* and its files, insert_event only the Events writer and its files; the
\* files and frames of Streams hold stream records only, those of Events
\* event records only.
C20_WritersAreSeparate ==
    [][ kind = "jsonfiles" =>
          /\ Stepped({"new_stream"}) =>
                /\ jw'["events"] = jw["events"]
                /\ written'["events"] = written["events"]
                /\ FilesOf(files', "events") = FilesOf(files, "events")
          /\ Stepped({"insert_event"}) =>
                /\ jw'["streams"] = jw["streams"]
                /\ written'["streams"] = written["streams"]
                /\ FilesOf(files', "streams") = FilesOf(files, "streams")
          /\ HoldsOwnRecords(files', jw')
      ]_vars

\* C20 witness: both writers have been written to: a finished frame of a
\* streams file holds a record and the Events writer holds one too.
C20_Witness ==
    /\ kind = "jsonfiles"
    /\ FinalizedIn(files, "streams") # <<>>
    /\ RecordsOf("events") # <<>>
    /\ last.op = "insert_event"
    /\ last.res = "ok"

(***************************************************************************)
(* SqliteOpen::open, openers.rs:17-41.  disk is the database file: its     *)
(* user_version, the number of schema statements it holds and how many     *)
(* times a whole schema was committed to it.  otx is the transaction's     *)
(* view of the file, opens the outcome of each call so far.                *)
(***************************************************************************)
ovars == <<disk, otx, opc, opens>>

\* Statements of the schema batch.
SchemaStmts == 2

InitOpen ==
    /\ SubmitIdle
    /\ ExtraIdle
    /\ StoreOpened("sqlite")

OpenFrame == UNCHANGED <<svars, stvars, tk, mutex, log, spawned, task_conn, ran>>

\* `?` inside the transaction: tx is dropped, which rolls it back.
OpenFails(at) ==
    /\ otx' = <<>>
    /\ opc' = "idle"
    /\ opens' = Append(opens, at)
    /\ disk' = disk

\* openers.rs:27-32  Connection::open, the foreign_keys pragma, transaction()
OpenBegin ==
    /\ opc = "idle"
    /\ Len(opens) < MaxOpens
    /\ \E ok \in BOOLEAN :
         IF ok
         THEN /\ otx' = disk
              /\ opc' = "read"
              /\ UNCHANGED <<disk, opens>>
         ELSE OpenFails("open")
    /\ OpenFrame

\* An open that applies the schema whatever the version is.
OpenReadVersionUngated ==
    /\ opc = "read"
    /\ \E ok \in BOOLEAN :
         IF ok
         THEN /\ opc' = "schema"
              /\ UNCHANGED <<disk, otx, opens>>
         ELSE OpenFails("read")
    /\ OpenFrame

\* openers.rs:33-34  user_version is read; zero leads to the schema
OpenReadVersion ==
    /\ opc = "read"
    /\ \E ok \in BOOLEAN :
         IF ok
         THEN /\ opc' = IF otx.user_version = 0 THEN "schema" ELSE "commit"
              /\ UNCHANGED <<disk, otx, opens>>
         ELSE OpenFails("read")
    /\ OpenFrame

\* openers.rs:35  tx.execute_batch(&schema_contents)?, one statement a step
OpenExecuteBatch ==
    /\ opc = "schema"
    /\ \E ok \in BOOLEAN :
         IF ok
         THEN /\ otx' = [otx EXCEPT
                           !.schema = @ + 1,
                           !.applied = IF otx.schema + 1 = SchemaStmts
                                       THEN @ + 1 ELSE @]
              /\ opc' = IF otx.schema + 1 >= SchemaStmts
                        THEN "version" ELSE "schema"
              /\ UNCHANGED <<disk, opens>>
         ELSE OpenFails("schema")
    /\ OpenFrame

\* openers.rs:36  tx.pragma_update(None, "user_version", 1)?
OpenSetVersion ==
    /\ opc = "version"
    /\ \E ok \in BOOLEAN :
         IF ok
         THEN /\ otx' = [otx EXCEPT !.user_version = 1]
              /\ opc' = "commit"
              /\ UNCHANGED <<disk, opens>>
         ELSE OpenFails("version")
    /\ OpenFrame

\* openers.rs:38-39  tx.commit()?; Ok(Box::new(conn))
OpenCommit ==
    /\ opc = "commit"
    /\ \E ok \in BOOLEAN :
         IF ok
         THEN /\ disk' = otx
              /\ otx' = <<>>
              /\ opc' = "idle"
              /\ opens' = Append(opens, "ok")
         ELSE OpenFails("commit")
    /\ OpenFrame

NextOpen ==
    \/ OpenBegin
    \/ OpenReadVersion
    \/ OpenExecuteBatch
    \/ OpenSetVersion
    \/ OpenCommit

SpecOpen == InitOpen /\ [][NextOpen]_vars

\* The schema is in the database file.
SchemaApplied(d) == d.schema = SchemaStmts

\* C16: over any sequence of SqliteOpen::open calls, failing ones included,
\* the schema is committed at most once; whenever no open is running the
\* marker is non-zero exactly when the schema is applied; and no step of an
\* open that found a non-zero marker changes the database file.
C16_SchemaAppliedOnce ==
    [][ /\ disk'.applied <= 1
        /\ opc' = "idle" =>
              /\ (disk'.user_version # 0) <=> SchemaApplied(disk')
              /\ disk'.schema \in {0, SchemaStmts}
        /\ disk.user_version # 0 => disk' = disk
      ]_vars

\* C16 witness: an open applied the schema and failed to commit, the next
\* one applied and committed it, and a third one found the marker set.
C16_Witness ==
    /\ opens = <<"commit", "ok", "ok">>
    /\ opc = "idle"
    /\ disk.user_version = 1
    /\ SchemaApplied(disk)

(***************************************************************************)
(* Disposal of a JsonFiles backend, conn.rs:247-252.  The backend is used  *)
(* through the Connection trait until it is dropped; task_conn holds the   *)
(* JsonFiles moved into the finalization task that has not run yet.        *)
(***************************************************************************)
InitDispose ==
    /\ SubmitIdle
    /\ ExtraIdle
    /\ StoreOpened("jsonfiles")

DisposeFrame ==
    UNCHANGED <<svars, kind, db_streams, db_events, gone, written, panicked,
                last, nops, tk, mutex, log, ovars>>

\* JsonFileWriter::take, conn.rs:91-96: the encoder and the table name move
\* into the returned writer.
take(wr) == [taken |-> wr, left |-> Writer(<<>>, "")]

\* JsonFiles::take, conn.rs:182-189
JsonFiles_take(conn) ==
    [taken |-> [t \in Tables |-> take(conn[t]).taken],
     left  |-> [t \in Tables |-> take(conn[t]).left]]

\* log_commit(&mut conn): commits the backend it is given, as
\* JsonFiles::commit does (conn.rs:236-240).
log_commit(conn, fs, io) ==
    LET s == finish_file(conn["streams"], fs,
                         IF io.t = "streams" THEN io.f ELSE "none") IN
    IF s.res = "err"
    THEN [conn |-> [conn EXCEPT !["streams"] = s.wr], files |-> s.files,
          res |-> "err"]
    ELSE LET e == finish_file(conn["events"], s.files,
                              IF io.t = "events" THEN io.f ELSE "none") IN
         [conn |-> [conn EXCEPT !["streams"] = s.wr, !["events"] = e.wr],
          files |-> e.files, res |-> e.res]

\* The backend has not been dropped.
Alive == spawned = 0

\* A call of the Connection trait on the live backend.
DisposeCall ==
    /\ Alive
    /\ NewStream \/ InsertEvent \/ Flush \/ Commit

\* impl Drop for JsonFiles, conn.rs:247-252, run for the backend itself:
\* take() moves both writers into conn, which the spawned task owns; the
\* writers left behind hold no encoder, so their own drop finishes nothing.
DropJsonFiles ==
    /\ Alive
    /\ ~panicked
    /\ task_conn' = <<JsonFiles_take(jw).taken>>
    /\ jw' = JsonFiles_take(jw).left
    /\ spawned' = spawned + 1
    /\ UNCHANGED <<files, io_failed, ran>>
    /\ DisposeFrame

\* The spawned task, conn.rs:250: log_commit(&mut conn).await.unwrap(); then
\* conn, a JsonFiles, goes out of scope (also when unwrap panics), which
\* runs conn.rs:247-252 again: take() and another tokio::spawn.
FinalizeTask ==
    /\ task_conn # <<>>
    /\ ran < MaxTasks
    /\ \E io \in IoFaults({"none", "finish"}) :
         LET r == log_commit(task_conn[1], files, io) IN
         /\ files' = r.files
         /\ io_failed' = (io_failed \/ r.res = "err")
         /\ task_conn' = <<JsonFiles_take(r.conn).taken>>
         /\ spawned' = spawned + 1
    /\ ran' = ran + 1
    /\ UNCHANGED jw
    /\ DisposeFrame

NextDispose ==
    \/ DisposeCall
    \/ DropJsonFiles
    \/ FinalizeTask

SpecDispose == InitDispose /\ [][NextDispose]_vars

\* C18: dropping a JsonFiles backend spawns one finalization task holding
\* both writers; once that task has run no finalization task is pending and
\* none was spawned after the first.
C18_DisposalTerminates ==
    /\ spawned >= 1 /\ ran = 0 => task_conn # <<>>
    /\ ran >= 1 => task_conn = <<>> /\ spawned = 1

====
